---------------------------- MODULE Spec2Model ----------------------------
(***************************************************************************)
(* Model of ctapipe/image/muon/muon_reco_functions.py: the muon ring       *)
(* reconstruction driver analyze_muon_event and the functions it calls.    *)
(*                                                                         *)
(* Units.  Angles are integers in milli-degrees (1.0 deg = 1000), focal    *)
(* plane positions and the focal length in millimetres, the mirror radius  *)
(* and the impact parameter in millimetres, hole and secondary radii in    *)
(* tenths of a millimetre, fractions of the mirror radius in percent.      *)
(* A boolean pixel array is the set of the pixels where it is True; an     *)
(* image is a function from pixels to charges.                             *)
(***************************************************************************)
EXTENDS Integers, Sequences, FiniteSets, TLC

VARIABLES
    tels_with_data, \* event.dl0.tels_with_data, in iteration order
    idx,            \* number of telescopes the for loop has taken so far
    tel,            \* the loop body's locals for the current telescope
    tel_log,        \* history: one entry per telescope the loop has taken
    output,         \* the list `output`
    pc,             \* position in analyze_muon_event / do_multi_ring_fit
    exc,            \* the exception that ended the call, or "none"
    geom,           \* camera geometry of the current telescope
    foc_len,        \* its equivalent focal length
    image,          \* name of the image of the current telescope
    clean_mask,     \* clean_mask of do_multi_ring_fit
    mask,           \* mask of do_multi_ring_fit
    ring_fit,       \* ring_fit of do_multi_ring_fit
    nfits,          \* history: calls of muon_ring_fit in this refinement
    ntight,         \* history: mask tightenings in this refinement
    fit_mask,       \* history: the mask the last muon_ring_fit call was given
    fit_npix,       \* history: pixel count of each mask given to the fitter
    fin,            \* arguments of the pure function under evaluation
    fout            \* its result, or NotEvaluated

vars == <<tels_with_data, idx, tel, tel_log, output, pc, exc, geom, foc_len,
          image, clean_mask, mask, ring_fit, nfits, ntight, fit_mask,
          fit_npix, fin, fout>>

event_vars == <<tels_with_data, idx, tel, tel_log, output>>
refine_vars == <<geom, foc_len, image, clean_mask, mask, ring_fit, nfits,
                 ntight, fit_mask, fit_npix>>
pure_vars == <<fin, fout>>

-----------------------------------------------------------------------------
(* Bounds of the model *)

\* telescopes with data in one event
MaxTels == 2
\* pixels per side of the square model camera used by analyze_muon_event
GridBig == 13
\* pixels of the small camera used to exercise do_multi_ring_fit on all masks
NToy == 8

-----------------------------------------------------------------------------
(* Helpers *)

Min(S) == CHOOSE m \in S : \A n \in S : m <= n

Abs(v) == IF v >= 0 THEN v ELSE -v

NoFit == [ring_center_x |-> 0, ring_center_y |-> 0, ring_radius |-> 0]
NotEvaluated == "not evaluated"

-----------------------------------------------------------------------------
(* generate_muon_cuts_by_telescope_name: the parallel lists *)

names == <<"LST_LST_LSTCam", "MST_MST_NectarCam", "MST_MST_FlashCam",
           "MST_SCT_SCTCam", "SST_1M_DigiCam", "SST_GCT_CHEC",
           "SST_ASTRI_ASTRICam", "SST_ASTRI_CHEC">>
tail_cuts == <<(<<5, 7>>), (<<5, 7>>), (<<10, 12>>), (<<5, 7>>),
               (<<5, 7>>), (<<5, 7>>), (<<5, 7>>), (<<5, 7>>)>>
\* in percent of the mirror radius
impact == <<(<<20, 90>>), (<<10, 95>>), (<<20, 90>>), (<<20, 90>>),
            (<<10, 95>>), (<<10, 95>>), (<<10, 95>>), (<<10, 95>>)>>
\* milli-degrees
ringwidth == <<(<<40, 80>>), (<<20, 100>>), (<<10, 100>>), (<<20, 100>>),
               (<<10, 500>>), (<<20, 200>>), (<<20, 200>>), (<<20, 200>>)>>
total_pix == <<1855, 1855, 1764, 11328, 1296, 2048, 2368, 2048>>
min_pix == <<148, 148, 141, 680, 104, 164, 142, 164>>
\* milli-degrees; nine entries in the source
ang_pixel_width == <<100, 200, 180, 67, 240, 200, 170, 200, 163>>
\* tenths of a millimetre
hole_rad == <<3080, 2440, 2440, 43866, 1600, 1300, 1710, 1710>>
\* milli-degrees
cam_rad == <<2260, 3960, 3870, 4000, 4450, 2860, 5250, 2860>>
\* tenths of a millimetre
sec_rad == <<0, 0, 0, 27000, 0, 10000, 18000, 18000>>
sct == <<FALSE, FALSE, FALSE, TRUE, FALSE, TRUE, TRUE, TRUE>>

\* zip(*muon_cuts.values()) stops at the shortest list
zip_len == Min({Len(names), Len(tail_cuts), Len(impact), Len(ringwidth),
                Len(total_pix), Len(min_pix), Len(cam_rad), Len(sec_rad),
                Len(sct), Len(ang_pixel_width), Len(hole_rad)})

muon_cuts_row(i) ==
    [Name |-> names[i],
     tail_cuts |-> [picture_thresh |-> tail_cuts[i][1],
                    boundary_thresh |-> tail_cuts[i][2]],
     Impact |-> impact[i],
     RingWidth |-> ringwidth[i],
     total_pix |-> total_pix[i],
     min_pix |-> min_pix[i],
     CamRad |-> cam_rad[i],
     SecRad |-> sec_rad[i],
     SCT |-> sct[i],
     AngPixW |-> ang_pixel_width[i],
     HoleRad |-> hole_rad[i]]

generate_muon_cuts_by_telescope_name ==
    [n \in {names[i] : i \in 1..zip_len} |->
        muon_cuts_row(CHOOSE i \in 1..zip_len : names[i] = n)]

-----------------------------------------------------------------------------
(* Camera geometries (geom.pix_x, geom.pix_y, in mm) *)

\* a square grid of GridBig x GridBig pixels, 20 mm apart, centred
BigPixels == 1..(GridBig * GridBig)
\* NToy pixels laid row by row on a grid 3 wide, 100 mm apart
ToyPixels == 1..NToy

Pixels(g) == IF g = "Toy" THEN ToyPixels ELSE BigPixels

pix_x(g) ==
    IF g = "Toy"
    THEN [p \in ToyPixels |-> (((p - 1) % 3) - 1) * 100]
    ELSE [p \in BigPixels |-> (((p - 1) % GridBig) - (GridBig \div 2)) * 20]

pix_y(g) ==
    IF g = "Toy"
    THEN [p \in ToyPixels |-> (((p - 1) \div 3) - 1) * 100]
    ELSE [p \in BigPixels |-> (((p - 1) \div GridBig) - (GridBig \div 2)) * 20]

-----------------------------------------------------------------------------
(* transform_pixel_coords_from_meter_to_deg, fast_but_bad = True *)

\* np.rad2deg((v / foc_len).value), as milli-degrees rounded towards zero
rad2deg(v, f) ==
    IF v >= 0 THEN (v * 57296) \div f ELSE -(((-v) * 57296) \div f)

\* the exact mode goes through astropy's frames and is not modelled
transform_pixel_coords_from_meter_to_deg(x, y, f) ==
    LET delta_alt == [p \in DOMAIN x |-> rad2deg(x[p], f)]
        delta_az == [p \in DOMAIN y |-> rad2deg(y[p], f)]
    IN <<delta_az, delta_alt>>

-----------------------------------------------------------------------------
(* calc_nom_dist and calc_dist_and_ring_dist *)

\* the square of calc_nom_dist(ring_fit)
calc_nom_dist_sq(rf) ==
    rf.ring_center_x * rf.ring_center_x + rf.ring_center_y * rf.ring_center_y

\* the default of `parameter`, in tenths
parameter_default == 4

\* dist_mask of calc_dist_and_ring_dist: |dist - r| < r * parameter, with
\* dist = sqrt(dx^2 + dy^2), decided exactly on the squares
\* (lo^2 < 100 d^2 < hi^2, written with \div to stay within 32 bits).  For
\* r <= 0 the right side is <= 0 and no pixel passes.
calc_dist_and_ring_dist(x, y, rf, parameter) ==
    LET r == rf.ring_radius
        lo == (10 - parameter) * r
        hi == (10 + parameter) * r
        d2(p) == (x[p] - rf.ring_center_x) * (x[p] - rf.ring_center_x)
                 + (y[p] - rf.ring_center_y) * (y[p] - rf.ring_center_y)
    IN {p \in DOMAIN x :
          /\ r > 0
          /\ d2(p) <= (hi * hi - 1) \div 100
          /\ IF lo >= 0 THEN d2(p) > (lo * lo) \div 100 ELSE TRUE}

-----------------------------------------------------------------------------
(* do_multi_ring_fit *)

\* what the fitter can return: a centred ring inside the radius window, one
\* at its low edge, one that lies off the model cameras and, on the small
\* camera, one centred on an edge pixel
RingFits(g) ==
    {[ring_center_x |-> 0, ring_center_y |-> 0, ring_radius |-> 1200],
     [ring_center_x |-> 0, ring_center_y |-> 0, ring_radius |-> 1000],
     [ring_center_x |-> 5000, ring_center_y |-> 0, ring_radius |-> 1200]}
    \cup (IF g = "Toy"
          THEN {[ring_center_x |-> 1023, ring_center_y |-> 0,
                 ring_radius |-> 1000]}
          ELSE {})

\* the fitter either returns a ring or raises
FitError == [raises |-> TRUE, ring_fit |-> NoFit]
FitAnswers(g) ==
    {[raises |-> FALSE, ring_fit |-> f] : f \in RingFits(g)} \cup {FitError}

\* MuonRingFitter's call: a ring, or an error; fewer than 3 masked pixels
\* is always an error
muon_ring_fit(answer, m) ==
    IF Cardinality(m) < 3 THEN FitError ELSE answer

\* x, y as analyze_muon_event hands them to do_multi_ring_fit (lines 237-238)
XY == transform_pixel_coords_from_meter_to_deg(pix_x(geom), pix_y(geom), foc_len)

\* clean_mask * dist_mask, mask *= dist_mask on boolean arrays
combine_mut(m, dist_mask) == dist_mask
combine(m, dist_mask) == m \cap dist_mask

\* the statement after a fit is its tightening; after a tightening comes the
\* next fit, and after the third the return
after_fit_mut(n) == IF n = 3 THEN "ret_fit" ELSE "tighten"
after_fit(n) == "tighten"
after_tighten(n) == IF n < 3 THEN "fit" ELSE "ret_fit"

\* ring_fit = muon_ring_fit(x, y, image, mask): lines 139, 143, 147
Fit ==
    /\ pc = "fit"
    /\ \E answer \in FitAnswers(geom) :
         LET got == muon_ring_fit(answer, mask)
         IN /\ nfits' = nfits + 1
            /\ fit_mask' = mask
            /\ fit_npix' = Append(fit_npix, Cardinality(mask))
            /\ IF got.raises
               THEN /\ pc' = "raised"
                    /\ exc' = "FitError"
                    /\ ring_fit' = ring_fit
               ELSE /\ pc' = after_fit(nfits + 1)
                    /\ exc' = exc
                    /\ ring_fit' = got.ring_fit
    /\ UNCHANGED <<geom, foc_len, image, clean_mask, mask, ntight>>
    /\ UNCHANGED event_vars
    /\ UNCHANGED pure_vars

\* calc_dist_and_ring_dist and the product of the masks: lines 140-141,
\* 144-145, 148-149
Tighten ==
    /\ pc = "tighten"
    /\ mask' = combine(mask, calc_dist_and_ring_dist(XY[1], XY[2], ring_fit,
                                                      parameter_default))
    /\ ntight' = ntight + 1
    /\ pc' = after_tighten(ntight + 1)
    /\ UNCHANGED <<geom, foc_len, image, clean_mask, ring_fit, nfits,
                   fit_mask, fit_npix, exc>>
    /\ UNCHANGED event_vars
    /\ UNCHANGED pure_vars

-----------------------------------------------------------------------------
(* The event: instrument description and images *)

\* str(teldes) of the telescopes an event can hold; the last is not a key of
\* the cut table
TelDescriptions == {"SST_1M_DigiCam", "LST_LST_LSTCam", "LST_MAGIC_MAGICCam"}

\* event.inst.subarray.tel[telid]: camera and optics
subarray_tel(teldes) ==
    [camera |-> "Big",
     optics |-> [equivalent_focal_length |-> 5600,
                 mirror_radius |-> IF teldes = "LST_LST_LSTCam"
                                   THEN 11500 ELSE 2000]]

ImageNames == {"dark", "faint", "pair", "blob", "flat"}

\* event.dl1.tel[telid].image: no signal, noise below every threshold, two
\* bright neighbours at the camera centre, the centre and its four
\* neighbours, every pixel bright
Image(name, g) ==
    [p \in Pixels(g) |->
        CASE name = "dark" -> 0
          [] name = "faint" -> 3
          [] name = "pair" ->
                IF pix_x(g)[p] \in {0, 20} /\ pix_y(g)[p] = 0 THEN 20 ELSE 0
          [] name = "blob" ->
                IF Abs(pix_x(g)[p]) + Abs(pix_y(g)[p]) <= 20 THEN 20 ELSE 0
          [] OTHER -> 20]

\* tailcuts_clean: the pixels that reach the picture threshold (the
\* neighbour rules of the two-threshold cleaning are left out)
tailcuts_clean(g, img, picture_thresh, boundary_thresh) ==
    {p \in DOMAIN img : img[p] >= picture_thresh}

-----------------------------------------------------------------------------
(* is_ring_good *)

npix_above_threshold(img, thresh) ==
    Cardinality({p \in DOMAIN img : img[p] > thresh})

npix_composing_ring(img) ==
    Cardinality({p \in DOMAIN img : img[p] # 0})

\* image * mask
cleaned(img, m) == [p \in DOMAIN img |-> IF p \in m THEN img[p] ELSE 0]

is_ring_good_low_incl(cleaned_image, rf, muon_cut) ==
    /\ 10 * npix_above_threshold(cleaned_image,
                                 muon_cut.tail_cuts.picture_thresh)
          > muon_cut.min_pix
    /\ npix_composing_ring(cleaned_image) > muon_cut.min_pix
    /\ calc_nom_dist_sq(rf) < muon_cut.CamRad * muon_cut.CamRad
    /\ rf.ring_radius >= 1000
    /\ rf.ring_radius < 1500

is_ring_good_min_pix_incl(cleaned_image, rf, muon_cut) ==
    /\ 10 * npix_above_threshold(cleaned_image,
                                 muon_cut.tail_cuts.picture_thresh)
          > muon_cut.min_pix
    /\ npix_composing_ring(cleaned_image) >= muon_cut.min_pix
    /\ calc_nom_dist_sq(rf) < muon_cut.CamRad * muon_cut.CamRad
    /\ rf.ring_radius > 1000
    /\ rf.ring_radius < 1500

\* n > 0.1 * min_pix is 10 n > min_pix; nom_dist < CamRad is compared on the
\* squares (both sides are >= 0)
is_ring_good(cleaned_image, rf, muon_cut) ==
    LET number_of_pixels_above_picture_thresh ==
            npix_above_threshold(cleaned_image,
                                 muon_cut.tail_cuts.picture_thresh)
        is_enough_pixels_over_picture_thresh ==
            10 * number_of_pixels_above_picture_thresh > muon_cut.min_pix
        number_of_non_zero_pixels == npix_composing_ring(cleaned_image)
        is_enough_pixels_in_cleaned_image ==
            number_of_non_zero_pixels > muon_cut.min_pix
        is_ring_center_inside_camera ==
            calc_nom_dist_sq(rf) < muon_cut.CamRad * muon_cut.CamRad
    IN /\ is_enough_pixels_over_picture_thresh
       /\ is_enough_pixels_in_cleaned_image
       /\ is_ring_center_inside_camera
       /\ rf.ring_radius > 1000
       /\ rf.ring_radius < 1500

-----------------------------------------------------------------------------
(* The intensity fit and the muon_found conditions *)

\* def calc_muon_intensity_parameters(x, y, image, mask, ring_fit, ctel)
calc_muon_intensity_parameters_nparams == 6
\* the call in analyze_muon_event passes x, y, image, mask, ring_fit
calc_muon_intensity_parameters_nargs == 5

\* what ctel.fit_muon can return
IntensityFits ==
    {[raises |-> FALSE, impact_parameter |-> 1000, ring_width |-> 50],
     [raises |-> TRUE, impact_parameter |-> 0, ring_width |-> 0]}

\* The call binds its arguments first: a missing argument is a TypeError.
\* The body then runs ctel.fit_muon and ring_completeness and reads
\* ring_dist (line 196), a name neither the function nor the module binds.
calc_muon_intensity_parameters(nargs, fit_muon) ==
    IF nargs # calc_muon_intensity_parameters_nparams
    THEN [raises |-> "TypeError", value |-> fit_muon]
    ELSE IF fit_muon.raises
         THEN [raises |-> "FitError", value |-> fit_muon]
         ELSE [raises |-> "NameError", value |-> fit_muon]

muon_found_low_incl(impact_parameter, ring_width, muon_cut, mirror_radius) ==
    /\ 100 * impact_parameter < muon_cut.Impact[2] * mirror_radius
    /\ 100 * impact_parameter >= muon_cut.Impact[1] * mirror_radius
    /\ ring_width < muon_cut.RingWidth[2]
    /\ ring_width > muon_cut.RingWidth[1]

\* all(conditions), lines 279-295; Impact is in percent
muon_found(impact_parameter, ring_width, muon_cut, mirror_radius) ==
    /\ 100 * impact_parameter < muon_cut.Impact[2] * mirror_radius
    /\ 100 * impact_parameter > muon_cut.Impact[1] * mirror_radius
    /\ ring_width < muon_cut.RingWidth[2]
    /\ ring_width > muon_cut.RingWidth[1]

\* ring_containment: whether the ring lies wholly inside the camera radius,
\* wholly outside it, or across its edge
ring_containment(radius, camrad, cx, cy) ==
    LET d2 == cx * cx + cy * cy
    IN IF camrad > radius /\ d2 < (camrad - radius) * (camrad - radius)
       THEN "contained"
       ELSE IF d2 > (camrad + radius) * (camrad + radius)
            THEN "outside"
            ELSE "partial"

-----------------------------------------------------------------------------
(* analyze_muon_event *)

muon_cuts_by_name == generate_muon_cuts_by_telescope_name

\* output.append(result)
append_mut(out, result) == <<result>> \o out
append(out, result) == Append(out, result)

\* for telid in event.dl0.tels_with_data: the loop body up to the call of
\* do_multi_ring_fit (lines 224-251)
LoopBody ==
    /\ pc = "loop"
    /\ idx < Len(tels_with_data)
    /\ \E teldes \in TelDescriptions, img \in ImageNames :
         LET telid == tels_with_data[idx + 1]
             desc == subarray_tel(teldes)
             found == teldes \in DOMAIN muon_cuts_by_name
             tailcuts == muon_cuts_by_name[teldes].tail_cuts
             cm == tailcuts_clean(desc.camera, Image(img, desc.camera),
                                  tailcuts.picture_thresh,
                                  tailcuts.boundary_thresh)
             entry == [telid |-> telid, key_found |-> found,
                       npix_clean |-> IF found THEN Cardinality(cm) ELSE 0,
                       at_gate |-> FALSE, ring_good |-> FALSE]
         IN /\ idx' = idx + 1
            /\ tel' = [telid |-> telid, teldes |-> teldes,
                       mirror_radius |-> desc.optics.mirror_radius]
            /\ tel_log' = Append(tel_log, entry)
            /\ geom' = desc.camera
            /\ foc_len' = desc.optics.equivalent_focal_length
            /\ image' = img
            /\ ring_fit' = NoFit
            /\ nfits' = 0
            /\ ntight' = 0
            /\ fit_mask' = {}
            /\ fit_npix' = <<>>
            /\ IF ~found
               THEN \* muon_cuts_by_name[str(teldes)] raises KeyError
                    /\ pc' = "raised"
                    /\ exc' = "KeyError"
                    /\ clean_mask' = {}
                    /\ mask' = {}
               ELSE /\ exc' = exc
                    /\ clean_mask' = cm
                    /\ mask' = cm
                    /\ pc' = IF cm = {} THEN "loop" ELSE "fit"
    /\ UNCHANGED <<tels_with_data, output>>
    /\ UNCHANGED pure_vars

\* the loop body after do_multi_ring_fit has returned (lines 256-298)
RecordResult ==
    /\ pc = "ret_fit"
    /\ tel_log # <<>>
    /\ \E fit_muon \in IntensityFits :
         LET muon_cut == muon_cuts_by_name[tel.teldes]
             rf == [ring_center_x |-> ring_fit.ring_center_x,
                    ring_center_y |-> ring_fit.ring_center_y,
                    ring_radius |-> ring_fit.ring_radius,
                    tel_id |-> tel.telid,
                    obs_id |-> 1,
                    event_id |-> 1,
                    ring_containment |->
                        ring_containment(ring_fit.ring_radius, muon_cut.CamRad,
                                         ring_fit.ring_center_x,
                                         ring_fit.ring_center_y)]
             result == [MuonRingParams |-> rf,
                        mirror_radius |-> tel.mirror_radius]
             good == is_ring_good(cleaned(Image(image, geom), mask), ring_fit,
                                  muon_cut)
             call == calc_muon_intensity_parameters(
                         calc_muon_intensity_parameters_nargs, fit_muon)
             updated == [MuonRingParams |-> rf,
                         mirror_radius |-> tel.mirror_radius,
                         MuonIntensityParams |->
                             [impact_parameter |-> call.value.impact_parameter,
                              ring_width |-> call.value.ring_width,
                              mask |-> mask,
                              tel_id |-> tel.telid,
                              obs_id |-> 1,
                              event_id |-> 1],
                         muon_found |->
                             muon_found(call.value.impact_parameter,
                                        call.value.ring_width, muon_cut,
                                        tel.mirror_radius)]
         IN /\ tel_log' = [tel_log EXCEPT ![Len(tel_log)] =
                              [@ EXCEPT !.at_gate = TRUE, !.ring_good = good]]
            /\ IF good /\ call.raises # "none"
               THEN /\ pc' = "raised"
                    /\ exc' = call.raises
                    /\ output' = output
               ELSE /\ pc' = "loop"
                    /\ exc' = exc
                    /\ output' = append(output,
                                        IF good THEN updated ELSE result)
    /\ UNCHANGED <<tels_with_data, idx, tel>>
    /\ UNCHANGED refine_vars
    /\ UNCHANGED pure_vars

\* return output
Return ==
    /\ pc = "loop"
    /\ idx = Len(tels_with_data)
    /\ pc' = "returned"
    /\ UNCHANGED <<exc>>
    /\ UNCHANGED event_vars
    /\ UNCHANGED refine_vars
    /\ UNCHANGED pure_vars

TelIds == 1..MaxTels

\* the telescopes with data: up to MaxTels distinct ids, in ascending or in
\* descending order
TelLists ==
    UNION {{[i \in 1..n |-> i], [i \in 1..n |-> n + 1 - i]} : n \in 0..MaxTels}

Init ==
    /\ tels_with_data \in TelLists
    /\ idx = 0
    /\ tel = [telid |-> 0]
    /\ tel_log = <<>>
    /\ output = <<>>
    /\ pc = "loop"
    /\ exc = "none"
    /\ geom = "Big"
    /\ foc_len = 5600
    /\ image = "dark"
    /\ clean_mask = {}
    /\ mask = {}
    /\ ring_fit = NoFit
    /\ nfits = 0
    /\ ntight = 0
    /\ fit_mask = {}
    /\ fit_npix = <<>>
    /\ fin = <<>>
    /\ fout = NotEvaluated

Next == LoopBody \/ Fit \/ Tighten \/ RecordResult \/ Return

Spec == Init /\ [][Next]_vars

-----------------------------------------------------------------------------
\* do_multi_ring_fit entered with any clean_mask over the small camera
InitRefine ==
    /\ tels_with_data = <<>>
    /\ idx = 0
    /\ tel = [telid |-> 0]
    /\ tel_log = <<>>
    /\ output = <<>>
    /\ pc = "fit"
    /\ exc = "none"
    /\ geom = "Toy"
    /\ foc_len = 5600
    /\ image = "flat"
    /\ clean_mask \in SUBSET ToyPixels
    /\ mask = clean_mask
    /\ ring_fit = NoFit
    /\ nfits = 0
    /\ ntight = 0
    /\ fit_mask = {}
    /\ fit_npix = <<>>
    /\ fin = <<>>
    /\ fout = NotEvaluated

NextRefine == Fit \/ Tighten

SpecRefine == InitRefine /\ [][NextRefine]_vars

-----------------------------------------------------------------------------
(* is_ring_good, the muon_found conditions and the projection on their own:  *)
(* the arguments are drawn around every threshold, the function is applied  *)

\* everything of analyze_muon_event at rest
AtRest ==
    /\ tels_with_data = <<>>
    /\ idx = 0
    /\ tel = [telid |-> 0]
    /\ tel_log = <<>>
    /\ output = <<>>
    /\ exc = "none"
    /\ geom = "Big"
    /\ foc_len = 5600
    /\ image = "dark"
    /\ clean_mask = {}
    /\ mask = {}
    /\ ring_fit = NoFit
    /\ nfits = 0
    /\ ntight = 0
    /\ fit_mask = {}
    /\ fit_npix = <<>>

StayAtRest ==
    /\ UNCHANGED exc
    /\ UNCHANGED event_vars
    /\ UNCHANGED refine_vars

CutNames == DOMAIN muon_cuts_by_name

\* a cleaned image with n_above pixels above every picture threshold,
\* n_nonzero pixels that are not zero, and zeros elsewhere
CountImage(n_above, n_nonzero) ==
    [p \in BigPixels |->
        IF p <= n_above THEN 20 ELSE IF p <= n_nonzero THEN 1 ELSE 0]

RingGoodInputsFor(c) ==
    {[cut |-> c, n_above |-> na, n_nonzero |-> nz,
      ring_center_x |-> cx, ring_center_y |-> 0, ring_radius |-> r] :
        na \in {muon_cuts_by_name[c].min_pix \div 10 + d : d \in {0, 1}},
        nz \in {n \in {muon_cuts_by_name[c].min_pix + d : d \in {0, 1}} :
                  n <= Cardinality(BigPixels)},
        cx \in {0, muon_cuts_by_name[c].CamRad - 1, muon_cuts_by_name[c].CamRad},
        r \in {999, 1000, 1001, 1499, 1500, 1501}}

RingGoodInputs == UNION {RingGoodInputsFor(c) : c \in CutNames}

InitRingGood ==
    /\ AtRest
    /\ pc = "call"
    /\ fin \in RingGoodInputs
    /\ fout = NotEvaluated

EvalRingGood ==
    /\ pc = "call"
    /\ fout' = is_ring_good(CountImage(fin.n_above, fin.n_nonzero),
                            [ring_center_x |-> fin.ring_center_x,
                             ring_center_y |-> fin.ring_center_y,
                             ring_radius |-> fin.ring_radius],
                            muon_cuts_by_name[fin.cut])
    /\ pc' = "done"
    /\ UNCHANGED fin
    /\ StayAtRest

SpecRingGood == InitRingGood /\ [][EvalRingGood]_vars

MuonFoundInputsFor(c, mr) ==
    {[cut |-> c, mirror_radius |-> mr, impact_parameter |-> ip,
      ring_width |-> rw] :
        ip \in {(muon_cuts_by_name[c].Impact[k] * mr) \div 100 + d :
                  k \in {1, 2}, d \in {-1, 0, 1}},
        rw \in {muon_cuts_by_name[c].RingWidth[k] + d :
                  k \in {1, 2}, d \in {-1, 0, 1}}}

MuonFoundInputs ==
    UNION {MuonFoundInputsFor(c, mr) : c \in CutNames, mr \in {2000, 11500}}

InitMuonFound ==
    /\ AtRest
    /\ pc = "call"
    /\ fin \in MuonFoundInputs
    /\ fout = NotEvaluated

EvalMuonFound ==
    /\ pc = "call"
    /\ fout' = muon_found(fin.impact_parameter, fin.ring_width,
                          muon_cuts_by_name[fin.cut], fin.mirror_radius)
    /\ pc' = "done"
    /\ UNCHANGED fin
    /\ StayAtRest

SpecMuonFound == InitMuonFound /\ [][EvalMuonFound]_vars

\* two pixels anywhere on a coarse focal plane, three focal lengths
ProjectInputs ==
    {[x |-> x, y |-> y, foc_len |-> f] :
        x \in [1..2 -> {-100, 0, 100}],
        y \in [1..2 -> {-100, 0, 100}],
        f \in {5600, 16000, 28000}}

InitProject ==
    /\ AtRest
    /\ pc = "call"
    /\ fin \in ProjectInputs
    /\ fout = NotEvaluated

EvalProject ==
    /\ pc = "call"
    /\ fout' = transform_pixel_coords_from_meter_to_deg(fin.x, fin.y,
                                                        fin.foc_len)
    /\ pc' = "done"
    /\ UNCHANGED fin
    /\ StayAtRest

SpecProject == InitProject /\ [][EvalProject]_vars

-----------------------------------------------------------------------------
(* Properties *)

Terminated == pc \in {"returned", "raised"}

\* telescope number i of the log is the one whose processing raised
Failed(i) == pc = "raised" /\ i = Len(tel_log)

\* the cleaning mask of telescope t selected at least one pixel
NonEmptyMask(t) ==
    \E i \in DOMAIN tel_log :
        tel_log[i].telid = t /\ tel_log[i].npix_clean > 0

RecordIds == [k \in DOMAIN output |-> output[k].MuonRingParams.tel_id]

HasRecord(t) == \E k \in DOMAIN output : RecordIds[k] = t

\* C1: when analyze_muon_event has ended, by return or by exception, every
\* telescope of the event has been processed, and every telescope with a
\* non-empty cleaning mask and no failure of its own has its record in the
\* collection the call returned.
C1_ErrorsDoNotAbortSiblings ==
    Terminated =>
        /\ Len(tel_log) = Len(tels_with_data)
        /\ \A i \in DOMAIN tel_log :
              (tel_log[i].npix_clean > 0 /\ ~Failed(i)) =>
                  (pc = "returned" /\ HasRecord(tel_log[i].telid))

\* C2: at the loop head and at the return, the records are those of the
\* telescopes taken so far whose cleaning mask is non-empty, one each, in the
\* iteration order of tels_with_data; the return comes after the last
\* telescope; a telescope whose mask is empty raised nothing and has no
\* record.
C2_OneRecordPerNonEmptyMask ==
    /\ pc = "returned" => idx = Len(tels_with_data)
    /\ pc \in {"loop", "returned"} =>
          RecordIds = SelectSeq(SubSeq(tels_with_data, 1, idx),
                                LAMBDA t : NonEmptyMask(t))
    /\ \A i \in DOMAIN tel_log :
          (tel_log[i].key_found /\ tel_log[i].npix_clean = 0) =>
              (~Failed(i) /\ ~HasRecord(tel_log[i].telid))

\* a returned event of two telescopes, one skipped and one recorded
C2_Witness ==
    /\ pc = "returned"
    /\ Len(tels_with_data) = 2
    /\ Len(output) = 1
    /\ \E i \in DOMAIN tel_log :
          tel_log[i].key_found /\ tel_log[i].npix_clean = 0

\* C3: every telescope that reached the ring-good test has a record with
\* MuonRingParams and mirror_radius, and that record carries
\* MuonIntensityParams and muon_found exactly when is_ring_good returned
\* true.
C3_IntensityIffRingGood ==
    \A i \in DOMAIN tel_log :
        tel_log[i].at_gate =>
            \E k \in DOMAIN output :
                /\ RecordIds[k] = tel_log[i].telid
                /\ {"MuonRingParams", "mirror_radius"} \subseteq DOMAIN output[k]
                /\ ("MuonIntensityParams" \in DOMAIN output[k])
                      <=> tel_log[i].ring_good
                /\ ("muon_found" \in DOMAIN output[k]) <=> tel_log[i].ring_good

\* C8: every mask handed to the ring fitter selects at least 3 pixels.
C8_FitterGetsThreePixels ==
    \A i \in DOMAIN fit_npix : fit_npix[i] >= 3

\* C6: in do_multi_ring_fit the mask only narrows: the current mask and the
\* mask of every fit are subsets of the cleaning mask, and no step adds a
\* pixel to the mask or fits on a pixel outside the mask of the round before.
C6_MaskOnlyNarrows ==
    /\ [](mask \subseteq clean_mask /\ fit_mask \subseteq clean_mask)
    /\ [][mask' \subseteq mask /\ fit_mask' \subseteq mask]_vars

\* the mask narrowed strictly in two successive rounds
C6_Witness ==
    /\ ntight = 2
    /\ mask # fit_mask
    /\ fit_mask # clean_mask
    /\ mask # {}

\* the dist_mask of the current ring_fit
DistMask ==
    calc_dist_and_ring_dist(XY[1], XY[2], ring_fit, parameter_default)

\* C7 as stated: do_multi_ring_fit returns after three fits and two
\* tightenings, with the mask the third fit was run on.
C7_ThreeFitsTwoTightenings ==
    pc = "ret_fit" => (nfits = 3 /\ ntight = 2 /\ mask = fit_mask)

\* C7 amended: do_multi_ring_fit returns only after three fits and three
\* tightenings, one after each fit, with the ring of the third fit and the
\* mask that fit was run on narrowed by that ring's dist_mask; before its
\* third fit it goes on or raises.
C7_ThreeFitsThreeTightenings ==
    /\ pc = "ret_fit" =>
          /\ nfits = 3
          /\ ntight = 3
          /\ Len(fit_npix) = 3
          /\ mask = fit_mask \cap DistMask
    /\ pc \in {"fit", "tighten"} => ntight <= nfits /\ nfits <= ntight + 1
    /\ nfits < 3 => pc \in {"fit", "tighten", "raised"}

\* a return where the third tightening removed a pixel the third fit used
C7_Witness ==
    /\ pc = "ret_fit"
    /\ mask # fit_mask
    /\ mask # {}

\* the arguments satisfy the pixel-count and ring-centre conditions
CountsAndCentreOk ==
    LET cut == muon_cuts_by_name[fin.cut]
    IN /\ 10 * fin.n_above > cut.min_pix
       /\ fin.n_nonzero > cut.min_pix
       /\ fin.ring_center_x * fin.ring_center_x
            + fin.ring_center_y * fin.ring_center_y < cut.CamRad * cut.CamRad

\* C4 as stated: with the other conditions satisfied, is_ring_good is true at
\* a radius of exactly 1.0 deg, false below it and false at exactly 1.5 deg.
C4_LowEdgeInclusive ==
    (pc = "done" /\ CountsAndCentreOk) =>
        /\ fin.ring_radius = 1000 => fout = TRUE
        /\ fin.ring_radius < 1000 => fout = FALSE
        /\ fin.ring_radius = 1500 => fout = FALSE

\* C4 amended: with the other conditions satisfied, the radius window is
\* exclusive at both edges: is_ring_good is false at exactly 1.0 deg, false
\* below it, false at exactly 1.5 deg and above, and true strictly between.
C4_BothEdgesExclusive ==
    (pc = "done" /\ CountsAndCentreOk) =>
        /\ fin.ring_radius <= 1000 => fout = FALSE
        /\ fin.ring_radius >= 1500 => fout = FALSE
        /\ (fin.ring_radius > 1000 /\ fin.ring_radius < 1500) => fout = TRUE

\* is_ring_good has rejected a ring of exactly 1.0 deg that passes the rest
C4_Witness ==
    /\ pc = "done"
    /\ CountsAndCentreOk
    /\ fin.ring_radius = 1000
    /\ fout = FALSE

\* C9: for a radius strictly between 1.0 and 1.5 deg, is_ring_good is true
\* exactly when more than 0.1 * min_pix pixels are above the picture
\* threshold, more than min_pix pixels are non-zero and the ring centre is
\* closer to the camera centre than CamRad.
C9_RingGoodIffThreeConditions ==
    (pc = "done" /\ fin.ring_radius > 1000 /\ fin.ring_radius < 1500) =>
        (fout <=> CountsAndCentreOk)

\* a ring rejected for one reason only: exactly min_pix non-zero pixels
C9_Witness ==
    /\ pc = "done"
    /\ fin.ring_radius > 1000
    /\ fin.ring_radius < 1500
    /\ fin.n_nonzero = muon_cuts_by_name[fin.cut].min_pix
    /\ 10 * fin.n_above > muon_cuts_by_name[fin.cut].min_pix
    /\ fin.ring_center_x = 0
    /\ fout = FALSE

ImpactLow == muon_cuts_by_name[fin.cut].Impact[1] * fin.mirror_radius
ImpactHigh == muon_cuts_by_name[fin.cut].Impact[2] * fin.mirror_radius
WidthLow == muon_cuts_by_name[fin.cut].RingWidth[1]
WidthHigh == muon_cuts_by_name[fin.cut].RingWidth[2]

OutsideAWindow ==
    \/ 100 * fin.impact_parameter < ImpactLow
    \/ 100 * fin.impact_parameter > ImpactHigh
    \/ fin.ring_width < WidthLow
    \/ fin.ring_width > WidthHigh

C10_AxesInOrder ==
    pc = "done" =>
        \A p \in DOMAIN fin.x :
            /\ fout[1][p] = rad2deg(fin.x[p], fin.foc_len)
            /\ fout[2][p] = rad2deg(fin.y[p], fin.foc_len)

=============================================================================
